---- MODULE Spec2Model ----
(***************************************************************************)
(* Concurrent fan-out fetch dispatcher of the Go_POC repository.           *)
(*                                                                         *)
(* One dispatch operation runs per behaviour; Init chooses which one       *)
(* (mode) and its arguments (urls, timeOut):                               *)
(*   "Fetch"                  exercise 03, map version   (unnamed/part_004)*)
(*   "FetchSlice"             exercise 03, slice version (unnamed/part_005)*)
(*   "FetchResp"              exercise 04                (unnamed/part_009)*)
(*   "FetchWithContextCancel" exercise 04                (unnamed/part_009)*)
(*   "FetchWithTimeOut"       exercise 04                (unnamed/part_009)*)
(*                                                                         *)
(* Time is discrete.  Every armed timer (time.After, time.Sleep, the       *)
(* deadline of context.WithTimeout) holds the number of ticks left until   *)
(* it is due; Tick lets one unit of time pass for all of them.  Time does  *)
(* not pass while a due timer event is still to be delivered to a parked   *)
(* worker or to a Context.  Goroutine scheduling is asynchronous: a        *)
(* launched worker starts, and the dispatcher resumes after its sleep,     *)
(* after an arbitrary delay.  The statements of FetchURL up to and         *)
(* including the poll of its select run at one instant.                    *)
(* Result.Duration, a wall-clock measurement that no decision of the       *)
(* program reads, is left out of the Result record.                        *)
(*                                                                         *)
(* The Result Channel is unbuffered: a send and its receive are one        *)
(* rendezvous step (Receive); a worker in state "sending" is blocked on    *)
(* its send, and blocked senders are served in the order they arrived      *)
(* (sendq).                                                                *)
(*                                                                         *)
(* Further specifications over the same variables:                         *)
(*   TaskSpec  FetchWithTimeout of exercise 04's TASK.md (Hint 3): one     *)
(*             Context for the batch, a buffered Result Channel and a      *)
(*             collect loop that returns on ctx.Done()                     *)
(*   CtxSpec   one Context and its worker, the CancelFunc called more      *)
(*             than once                                                   *)
(*   CalcSpec  Calculator.Divide of exercise 05                            *)
(*   SingleSpec  concurrent calls of GetResponseFetcherInstance            *)
(***************************************************************************)
EXTENDS Integers, Sequences, FiniteSets, TLC

\* ---------------------------------------------------------------- bounds
\* longest url list handed to a dispatch operation
MaxUrls == 2
\* simulated operation durations are 0..MaxDur-1 (the range of rand.Intn)
MaxDur == 3
\* the dispatcher's delay before cancel() is 0..MaxDelay-1 (rand.Intn)
MaxDelay == 2
\* the timeOut argument is 0..MaxTimeOut
MaxTimeOut == 2
\* the CancelFunc of one Context is called up to MaxCalls times
MaxCalls == 2
\* the arguments of Calculator.Divide are -MaxArg..MaxArg
MaxArg == 10

\* the number of goroutines that call GetResponseFetcherInstance
MaxGetters == 3

\* -------------------------------------------------------------- constants
\* time.Sleep(2 * time.Second) of FetchResp, in ticks
RespSleep == 2

\* ------------------------------------------------------------- data types
Modes == {"Fetch", "FetchSlice", "FetchResp", "FetchWithContextCancel", "FetchWithTimeOut"}

\* errors a Result can carry: nil, context.Canceled, context.DeadlineExceeded
ErrNil == "nil"
ErrCanceled == "context canceled"
ErrDeadlineExceeded == "context deadline exceeded"

\* model.Result; the URL 0 stands for the empty string
Result(url, status, err) == [URL |-> url, StatusCode |-> status, Error |-> err]

\* the zero value of model.Result
ZeroResult == Result(0, 0, ErrNil)

\* a context.Context that has not been created yet
NoCtx ==
    [created |-> FALSE, hasDeadline |-> FALSE, left |-> 0,
     done |-> FALSE, err |-> ErrNil, cause |-> "none", cancelCalled |-> FALSE,
     fires |-> 0]

\* the goroutine slot of input position i before `go model.FetchURL`
NoWorker ==
    [st |-> "none", url |-> 0, dur |-> 0, opLeft |-> 0, ctxLeft |-> 0,
     branch |-> "none", res |-> ZeroResult, sends |-> 0]

\* the error of Calculator.Divide
ErrDivideByZero == "cannot divide by zero"

\* Calculator.Divide before it is called; inf tells which bound of int the
\* conversion int(math.Inf(1)) produced, when it was evaluated
NoCall == [pc |-> "idle", a |-> 0, b |-> 0, result |-> 0, err |-> ErrNil, inf |-> "none"]

\* the nil ResponseFetcher, the zero value of responseFetcherInstance; the
\* UrlResponseFetcher that the call g of the accessor creates is named g
NilFetcher == 0

\* a call of GetResponseFetcherInstance before its first statement: made is
\* the UrlResponseFetcher the call created, ret the value it returned
NoGetter == [pc |-> "idle", made |-> NilFetcher, ret |-> NilFetcher]

VARIABLES mode, urls, timeOut, pc, index, sleepLeft, ctx, worker, received, results,
          sendq, chanCap, buf, calls, calc, responseFetcherInstance, getter

vars == <<mode, urls, timeOut, pc, index, sleepLeft, ctx, worker, received, results,
          sendq, chanCap, buf, calls, calc, responseFetcherInstance, getter>>

\* the package variable responseFetcherInstance and the calls of its accessor
single == <<responseFetcherInstance, getter>>

\* the capacity and the buffer of the Result Channel, the number of calls of
\* the CancelFunc, the call of Calculator.Divide, and the accessor of the
\* ResponseFetcher: state that the operations of exercises 03 and 04 leave
\* as it is
aux == <<chanCap, buf, calls, calc, single>>

\* the url lists of length 0..MaxUrls, up to renaming of the URLs: the first
\* URL is 1 and every later one is an earlier URL or the next new one.  Init
\* gives lists with a repeated URL to the exercise 03 operations, which key
\* their results by URL; FetchURL of exercise 04 only copies the URL.
UrlLists ==
    {s \in UNION {[1..n -> 1..n] : n \in 0..MaxUrls} :
        \A i \in DOMAIN s : s[i] = 1 \/ \E j \in 1..(i - 1) : s[j] >= s[i] - 1}

\* the URLs of the input list are pairwise distinct
DistinctUrls == \A i, j \in DOMAIN urls : urls[i] = urls[j] => i = j

\* ------------------------------------------------------------ the context
\* context.Background(): never done, no deadline
Background ==
    [created |-> TRUE, hasDeadline |-> FALSE, left |-> 0,
     done |-> FALSE, err |-> ErrNil, cause |-> "none", cancelCalled |-> FALSE,
     fires |-> 0]

\* variant: ctx is declared once before the loop, so every Context after the
\* first is derived from the Context of the previous position
ParentCtx_reused(cs, i) == IF i > 1 THEN cs[i - 1] ELSE Background

\* `ctx := context.Background()`: the parent of the Context of input position
\* i, given the Contexts cs created so far
ParentCtx(cs, i) == Background

\* variant: the Context of WithCancel also gets a deadline of one tick
WithCancel_timed(parent) ==
    IF parent.done
    THEN [parent EXCEPT !.cancelCalled = FALSE]
    ELSE [parent EXCEPT !.hasDeadline = TRUE, !.left = 1, !.cancelCalled = FALSE]

\* context.WithCancel(parent): a child of a parent that is done is done at
\* once, with the parent's reason
WithCancel(parent) ==
    [created |-> TRUE, hasDeadline |-> FALSE, left |-> 0,
     done |-> parent.done, err |-> parent.err, cause |-> parent.cause,
     cancelCalled |-> FALSE, fires |-> IF parent.done THEN 1 ELSE 0]

\* variant: the deadline is never armed
WithTimeout_noDeadline(parent, d) == WithCancel(parent)

\* context.WithTimeout(parent, d): as WithCancel, with a deadline d from now;
\* a deadline that has already passed yields a Context that is done with
\* DeadlineExceeded at once
WithTimeout(parent, d) ==
    IF parent.done THEN WithCancel(parent)
    ELSE [created |-> TRUE, hasDeadline |-> TRUE, left |-> IF d <= 0 THEN 0 ELSE d,
          done |-> d <= 0,
          err |-> IF d <= 0 THEN ErrDeadlineExceeded ELSE ErrNil,
          cause |-> IF d <= 0 THEN "deadline" ELSE "none",
          cancelCalled |-> FALSE, fires |-> IF d <= 0 THEN 1 ELSE 0]

\* variant: every call of the CancelFunc fires the Context again
cancel_refire(c) ==
    [c EXCEPT !.cancelCalled = TRUE, !.done = TRUE, !.left = 0,
              !.err = ErrCanceled, !.cause = "cancel", !.fires = @ + 1]

\* variant: a call of the CancelFunc on a Context that is done overwrites
\* the recorded reason
cancel_overwrite(c) ==
    [c EXCEPT !.cancelCalled = TRUE, !.done = TRUE, !.left = 0,
              !.err = ErrCanceled, !.cause = "cancel",
              !.fires = IF c.done THEN @ ELSE @ + 1]

\* variant: the CancelFunc records the call and does not fire the Context
cancel_unheard(c) == [c EXCEPT !.cancelCalled = TRUE]

\* the CancelFunc: the first firing of the Context records the reason, and
\* the deadline timer is stopped
cancel(c) ==
    IF c.done
    THEN [c EXCEPT !.cancelCalled = TRUE]
    ELSE [c EXCEPT !.cancelCalled = TRUE, !.done = TRUE, !.left = 0,
                   !.err = ErrCanceled, !.cause = "cancel", !.fires = @ + 1]

\* the deadline timer of a WithTimeout Context fires
deadlineExceeded(c) ==
    [c EXCEPT !.done = TRUE, !.err = ErrDeadlineExceeded, !.cause = "deadline",
              !.fires = @ + 1]

\* ctx.Err()
Err(c) == c.err

\* ------------------------------------------------------------- the worker
\* FetchURL, operation-completed branch (exercise 03 and exercise 04)
SuccessResult(w) == Result(w.url, 200, ErrNil)

\* variant: the Result of the ctx.Done() case carries no error
CtxDoneResult_nilErr(w, c) == Result(w.url, 500, ErrNil)

\* variant: the error is hard-coded instead of read from the Context
CtxDoneResult_fixedErr(w, c) == Result(w.url, 500, ErrCanceled)

\* FetchURL of exercise 04, case <-ctx.Done()
CtxDoneResult(w, c) == Result(w.url, 500, Err(c))

\* variant: the operation timer is armed one tick too long
After_late(d) == d + 1

\* time.After(d): the number of ticks until the operation timer is due
After(d) == d

\* variant: the worker sends again instead of returning
Sent_again(w) == [w EXCEPT !.sends = @ + 1]

\* worker w after its send on the Result Channel has been received: it
\* prints and returns, which ends the life of its locals
Sent(w) == [w EXCEPT !.st = "done", !.sends = @ + 1, !.dur = 0, !.ctxLeft = 0]

\* variant: on the ctx.Done() case the worker returns without sending
TakeBranch_silent(w, b, c) ==
    IF b = "ctx"
    THEN [w EXCEPT !.st = "done", !.branch = b, !.opLeft = 0, !.res = CtxDoneResult(w, c)]
    ELSE [w EXCEPT !.st = "sending", !.branch = b, !.opLeft = 0, !.res = SuccessResult(w)]

\* worker w leaves its wait by the given case of the select and reaches its
\* send on the Result Channel
TakeBranch(w, b, c) ==
    [w EXCEPT !.st = "sending", !.branch = b, !.opLeft = 0,
              !.res = IF b = "op" THEN SuccessResult(w) ELSE CtxDoneResult(w, c)]

\* variant: a Context that fires also replaces the Result of a worker that is
\* already at its send
WakeOnDone_retroactive(w, c) ==
    IF w.st \in {"parked", "sending"} THEN TakeBranch(w, "ctx", c) ELSE w

\* variant: a worker parked in select does not notice that its Context fired
WakeOnDone_asleep(w, c) == w

\* Context c fires: a worker parked in select leaves by the ctx.Done() case
WakeOnDone(w, c) == IF w.st = "parked" THEN TakeBranch(w, "ctx", c) ELSE w

\* variant: the launch loop stops one position early
LaunchCond_short(i, n) == i + 1 < n

\* the condition `index < len(urls)` of a launch loop
LaunchCond(i, n) == i < n

\* variant: the collect loop runs once more than the launch loop
CollectCond_extra(i, n) == i <= n

\* variant: the collect loop stops one receive early
CollectCond_short(i, n) == i + 1 < n

\* the condition `index < len(urls)` of a collect loop
CollectCond(i, n) == i < n

\* ------------------------------------------------- the channel's send queue
\* the orders in which the elements of S can arrive
Orderings(S) ==
    {p \in [1..Cardinality(S) -> S] : \A a, b \in 1..Cardinality(S) : p[a] = p[b] => a = b}

\* the senders of queue q that are still at their send in the workers w
StillSending(q, w) == SelectSeq(q, LAMBDA i : w[i].st = "sending")

\* the workers that reach their send on the Result Channel in this step
NewSenders ==
    {i \in DOMAIN worker' : worker'[i].st = "sending" /\ worker[i].st # "sending"}

\* the channel keeps the goroutines at `ch <- result` in the order in which
\* they reached it; a worker whose send completed leaves the queue
QueueSenders ==
    sendq' \in {StillSending(sendq, worker') \o p : p \in Orderings(NewSenders)}

\* variant: the channel lets any waiting sender complete
NextSender_any(q) == {q[k] : k \in DOMAIN q}

\* the sender whose send completes next: the one that has waited longest
NextSender(q) == IF q = <<>> THEN {} ELSE {Head(q)}

\* ------------------------------------------------------------------- Init
Init ==
    /\ mode \in Modes
    /\ urls \in UrlLists
    /\ (mode \notin {"Fetch", "FetchSlice"}) => DistinctUrls
    /\ (mode = "FetchResp") => (Len(urls) = 1)
    /\ timeOut \in 0..MaxTimeOut
    /\ (mode # "FetchWithTimeOut") => (timeOut = 0)
    /\ pc = "launch"
    /\ index = 0
    /\ sleepLeft = 0
    /\ ctx = [i \in 1..Len(urls) |-> NoCtx]
    /\ worker = [i \in 1..Len(urls) |-> NoWorker]
    /\ received = <<>>
    /\ sendq = <<>>
    /\ results = IF mode = "FetchSlice" THEN [i \in 1..Len(urls) |-> ZeroResult] ELSE <<>>
    /\ chanCap = 0
    /\ buf = <<>>
    /\ calls = 0
    /\ calc = NoCall
    /\ responseFetcherInstance = NilFetcher
    /\ getter = <<>>

\* variant: every goroutine is handed the first URL
Launched_firstUrl(u) == [NoWorker EXCEPT !.st = "launched", !.url = 1]

\* `go model.FetchURL(..., urls[index], ch)`
Launched(u) == [NoWorker EXCEPT !.st = "launched", !.url = u]

\* ------------------------------------------------------ dispatcher actions
\* Fetch (both versions): one iteration of the launch loop
FetchLaunch ==
    /\ mode \in {"Fetch", "FetchSlice"}
    /\ pc = "launch"
    /\ LaunchCond(index, Len(urls))
    /\ worker' = [worker EXCEPT ![index + 1] = Launched(urls[index + 1])]
    /\ index' = index + 1
    /\ UNCHANGED <<mode, urls, timeOut, pc, sleepLeft, ctx, received, results>>
    /\ UNCHANGED aux
    /\ QueueSenders

\* FetchWithTimeOut: one iteration of the launch loop; the CancelFunc that
\* context.WithTimeout returns is discarded
TimeOutLaunch ==
    /\ mode = "FetchWithTimeOut"
    /\ pc = "launch"
    /\ LaunchCond(index, Len(urls))
    /\ ctx' = [ctx EXCEPT ![index + 1] = WithTimeout(ParentCtx(ctx, index + 1), timeOut)]
    /\ worker' = [worker EXCEPT ![index + 1] = Launched(urls[index + 1])]
    /\ index' = index + 1
    /\ UNCHANGED <<mode, urls, timeOut, pc, sleepLeft, received, results>>
    /\ UNCHANGED aux
    /\ QueueSenders

\* FetchWithContextCancel: an iteration of the launch loop up to time.Sleep
CancelLaunch ==
    /\ mode = "FetchWithContextCancel"
    /\ pc = "launch"
    /\ LaunchCond(index, Len(urls))
    /\ \E delay \in 0..(MaxDelay - 1) :
          sleepLeft' = delay
    /\ ctx' = [ctx EXCEPT ![index + 1] = WithCancel(ParentCtx(ctx, index + 1))]
    /\ worker' = [worker EXCEPT ![index + 1] = Launched(urls[index + 1])]
    /\ pc' = "sleep"
    /\ UNCHANGED <<mode, urls, timeOut, index, received, results>>
    /\ UNCHANGED aux
    /\ QueueSenders

\* FetchWithContextCancel: time.Sleep returns, cancel(), index++
CancelAfterSleep ==
    /\ mode = "FetchWithContextCancel"
    /\ pc = "sleep"
    /\ sleepLeft = 0
    /\ ctx' = [ctx EXCEPT ![index + 1] = cancel(ctx[index + 1])]
    /\ worker' = [worker EXCEPT ![index + 1] =
                     WakeOnDone(worker[index + 1], cancel(ctx[index + 1]))]
    /\ index' = index + 1
    /\ pc' = "launch"
    /\ UNCHANGED <<mode, urls, timeOut, sleepLeft, received, results>>
    /\ UNCHANGED aux
    /\ QueueSenders

\* FetchResp: create the Context and launch the single worker
RespLaunch ==
    /\ mode = "FetchResp"
    /\ pc = "launch"
    /\ ctx' = [ctx EXCEPT ![1] = WithCancel(ParentCtx(ctx, 1))]
    /\ worker' = [worker EXCEPT ![1] = Launched(urls[1])]
    /\ pc' = "collect"
    /\ UNCHANGED <<mode, urls, timeOut, index, sleepLeft, received, results>>
    /\ UNCHANGED aux
    /\ QueueSenders

\* the launch loop ends; the collect loop starts with index := 0
LaunchDone ==
    /\ mode # "FetchResp"
    /\ pc = "launch"
    /\ ~LaunchCond(index, Len(urls))
    /\ pc' = "collect"
    /\ index' = 0
    /\ UNCHANGED <<mode, urls, timeOut, sleepLeft, ctx, worker, received, results>>
    /\ UNCHANGED aux
    /\ UNCHANGED sendq

\* what the collector stores for a received Result
Store(res) ==
    CASE mode = "Fetch" ->
            [u \in (DOMAIN results) \cup {res.URL} |->
                IF u = res.URL THEN res ELSE results[u]]
      [] mode = "FetchSlice" -> [results EXCEPT ![index + 1] = res]
      [] OTHER -> results

\* `res := <-ch` meeting worker i's `ch <- result`; the worker then returns
Receive(i) ==
    /\ pc = "collect"
    /\ \/ mode = "FetchResp"
       \/ mode # "FetchResp" /\ CollectCond(index, Len(urls))
    /\ worker[i].st = "sending"
    /\ i \in NextSender(sendq)
    /\ received' = Append(received, worker[i].res)
    /\ results' = Store(worker[i].res)
    /\ worker' = [worker EXCEPT ![i] = Sent(worker[i])]
    /\ IF mode = "FetchResp"
       THEN /\ pc' = "respSleep"
            /\ sleepLeft' = RespSleep
            /\ index' = index
       ELSE /\ index' = index + 1
            /\ UNCHANGED <<pc, sleepLeft>>
    /\ UNCHANGED <<mode, urls, timeOut, ctx>>
    /\ UNCHANGED aux
    /\ QueueSenders

\* the collect loop ends and the operation returns
CollectDone ==
    /\ mode # "FetchResp"
    /\ pc = "collect"
    /\ ~CollectCond(index, Len(urls))
    /\ pc' = "done"
    /\ UNCHANGED <<mode, urls, timeOut, index, sleepLeft, ctx, worker, received, results>>
    /\ UNCHANGED aux
    /\ UNCHANGED sendq

\* FetchResp: time.Sleep returns, `defer cancel()` is reached, and the
\* deferred cancel() runs as the function returns
RespReturn ==
    /\ mode = "FetchResp"
    /\ pc = "respSleep"
    /\ sleepLeft = 0
    /\ ctx' = [ctx EXCEPT ![1] = cancel(ctx[1])]
    /\ worker' = [worker EXCEPT ![1] = WakeOnDone(worker[1], cancel(ctx[1]))]
    /\ pc' = "done"
    /\ UNCHANGED <<mode, urls, timeOut, index, sleepLeft, received, results>>
    /\ UNCHANGED aux
    /\ QueueSenders

\* ---------------------------------------------------------- worker actions
\* variant: the select prefers the ctx.Done() case when both are ready
ReadyCases_ctxFirst(d, c) ==
    IF c.created /\ c.done THEN {"ctx"}
    ELSE IF After(d) = 0 THEN {"op"} ELSE {}

\* what a worker with an operation of duration d keeps of the time left
\* until its deadline when it polls its select, as far as the race of the
\* select depends on it: 0 when the deadline has passed, d + 1 when the
\* operation is due before the deadline, 1 when the deadline is due first
\* or together with the operation
LeftAtStart(left, d) ==
    IF left > d THEN d + 1 ELSE IF left > 0 THEN 1 ELSE 0

\* the cases of FetchURL's select that are ready when it is polled: the
\* operation timer when its duration is 0, ctx.Done() when the Context fired
ReadyCases(d, c) ==
    (IF After(d) = 0 THEN {"op"} ELSE {}) \cup (IF c.created /\ c.done THEN {"ctx"} ELSE {})

\* worker i starts running FetchURL: it draws its duration d, arms the
\* operation timer and polls the select (exercise 03: time.Sleep(d)); when
\* several cases are ready the select takes any of them, with no ready case
\* the worker parks
WorkerStart(i) ==
    /\ worker[i].st = "launched"
    /\ \E d \in 0..(MaxDur - 1) :
         LET w == [worker[i] EXCEPT !.dur = d, !.ctxLeft = LeftAtStart(ctx[i].left, d)]
             ready == ReadyCases(d, ctx[i])
         IN  IF ready = {}
             THEN worker' = [worker EXCEPT ![i] = [w EXCEPT !.st = "parked", !.opLeft = After(d)]]
             ELSE \E b \in ready :
                    worker' = [worker EXCEPT ![i] = TakeBranch(w, b, ctx[i])]
    /\ UNCHANGED <<mode, urls, timeOut, pc, index, sleepLeft, ctx, received, results>>
    /\ UNCHANGED aux
    /\ QueueSenders

\* the operation timer of a parked worker is due
OpDue(i) == worker[i].st = "parked" /\ worker[i].opLeft = 0

\* the deadline timer of Context i is due
DeadlineDue(i) ==
    ctx[i].created /\ ctx[i].hasDeadline /\ ~ctx[i].done /\ ctx[i].left = 0

\* the operation of parked worker i completes: operation-completed branch
OpFire(i) ==
    /\ OpDue(i)
    /\ worker' = [worker EXCEPT ![i] = TakeBranch(worker[i], "op", ctx[i])]
    /\ UNCHANGED <<mode, urls, timeOut, pc, index, sleepLeft, ctx, received, results>>
    /\ UNCHANGED aux
    /\ QueueSenders

\* the deadline of Context i elapses: the Context fires and wakes its worker
DeadlineFire(i) ==
    /\ DeadlineDue(i)
    /\ ctx' = [ctx EXCEPT ![i] = deadlineExceeded(ctx[i])]
    /\ worker' = [worker EXCEPT ![i] = WakeOnDone(worker[i], deadlineExceeded(ctx[i]))]
    /\ UNCHANGED <<mode, urls, timeOut, pc, index, sleepLeft, received, results>>
    /\ UNCHANGED aux
    /\ QueueSenders

\* ------------------------------------------------------------------ clock
\* some timer is armed and not yet due
TimerPending ==
    \/ \E i \in DOMAIN worker : worker[i].st = "parked" /\ worker[i].opLeft > 0
    \/ \E i \in DOMAIN ctx : ctx[i].left > 0
    \/ sleepLeft > 0

\* one tick less on a timer
Dec(n) == IF n > 0 THEN n - 1 ELSE 0

\* one unit of time passes, unless a due timer event is still to be delivered
Tick ==
    /\ TimerPending
    /\ \A i \in DOMAIN worker : ~OpDue(i) /\ ~DeadlineDue(i)
    /\ worker' = [i \in DOMAIN worker |-> [worker[i] EXCEPT !.opLeft = Dec(@)]]
    /\ ctx' = [i \in DOMAIN ctx |-> [ctx[i] EXCEPT !.left = Dec(@)]]
    /\ sleepLeft' = Dec(sleepLeft)
    /\ UNCHANGED <<mode, urls, timeOut, pc, index, received, results>>
    /\ UNCHANGED aux
    /\ QueueSenders

Next ==
    \/ FetchLaunch
    \/ TimeOutLaunch
    \/ CancelLaunch
    \/ CancelAfterSleep
    \/ RespLaunch
    \/ LaunchDone
    \/ \E i \in DOMAIN worker : Receive(i)
    \/ CollectDone
    \/ RespReturn
    \/ \E i \in DOMAIN worker : WorkerStart(i)
    \/ \E i \in DOMAIN worker : OpFire(i)
    \/ \E i \in DOMAIN worker : DeadlineFire(i)
    \/ Tick

Spec == Init /\ [][Next]_vars

\* the Go scheduler runs every runnable goroutine, timers fire and time passes
LiveSpec == Spec /\ WF_vars(Next)

\* ------------------------- FetchWithTimeout of TASK.md (exercise 04, Hint 3)
\* The documented pattern: one Context with one deadline for the batch, a
\* Result Channel with a buffer, and a collect loop whose select has a
\* ctx.Done() case that returns the Results received so far.  The capacity of
\* the channel is chosen by Init from 0 (unbuffered) to len(urls), the
\* capacity of the pattern.

\* variant: the channel holds one Result less than its capacity
HasRoom_oneLess(b, c) == Len(b) + 1 < c

\* a send on a channel of capacity c with buffer b does not block
HasRoom(b, c) == Len(b) < c

TaskInit ==
    /\ mode = "TASK.FetchWithTimeout"
    /\ urls \in UrlLists
    /\ DistinctUrls
    /\ timeOut \in 0..MaxTimeOut
    /\ chanCap \in 0..Len(urls)
    /\ pc = "create"
    /\ index = 0
    /\ sleepLeft = 0
    /\ ctx = <<NoCtx>>
    /\ worker = [i \in 1..Len(urls) |-> NoWorker]
    /\ received = <<>>
    /\ sendq = <<>>
    /\ results = <<>>
    /\ buf = <<>>
    /\ calls = 0
    /\ calc = NoCall
    /\ responseFetcherInstance = NilFetcher
    /\ getter = <<>>

\* `ctx, cancel := context.WithTimeout(context.Background(), timeout)`
TaskCreate ==
    /\ pc = "create"
    /\ ctx' = <<WithTimeout(Background, timeOut)>>
    /\ pc' = "launch"
    /\ UNCHANGED <<mode, urls, timeOut, index, sleepLeft, worker, received, results>>
    /\ UNCHANGED aux
    /\ UNCHANGED sendq

\* `go FetchURL(ctx, url, ch)` for the next url
TaskLaunch ==
    /\ pc = "launch"
    /\ LaunchCond(index, Len(urls))
    /\ worker' = [worker EXCEPT ![index + 1] = Launched(urls[index + 1])]
    /\ index' = index + 1
    /\ UNCHANGED <<mode, urls, timeOut, pc, sleepLeft, ctx, received, results>>
    /\ UNCHANGED aux
    /\ QueueSenders

\* the range loop ends; the collect loop starts with i := 0
TaskLaunchDone ==
    /\ pc = "launch"
    /\ ~LaunchCond(index, Len(urls))
    /\ pc' = "collect"
    /\ index' = 0
    /\ UNCHANGED <<mode, urls, timeOut, sleepLeft, ctx, worker, received, results>>
    /\ UNCHANGED aux
    /\ UNCHANGED sendq

\* worker i starts running FetchURL on the Context of the batch
TaskWorkerStart(i) ==
    /\ worker[i].st = "launched"
    /\ \E d \in 0..(MaxDur - 1) :
         LET ready == ReadyCases(d, ctx[1])
         IN  IF ready = {}
             THEN worker' = [worker EXCEPT ![i] =
                                [worker[i] EXCEPT !.st = "parked", !.opLeft = After(d)]]
             ELSE \E b \in ready :
                    worker' = [worker EXCEPT ![i] = TakeBranch(worker[i], b, ctx[1])]
    /\ UNCHANGED <<mode, urls, timeOut, pc, index, sleepLeft, ctx, received, results>>
    /\ UNCHANGED aux
    /\ QueueSenders

\* the operation of parked worker i completes
TaskOpFire(i) ==
    /\ OpDue(i)
    /\ worker' = [worker EXCEPT ![i] = TakeBranch(worker[i], "op", ctx[1])]
    /\ UNCHANGED <<mode, urls, timeOut, pc, index, sleepLeft, ctx, received, results>>
    /\ UNCHANGED aux
    /\ QueueSenders

\* the deadline of the batch elapses: the Context fires and wakes every
\* parked worker
TaskDeadlineFire ==
    /\ DeadlineDue(1)
    /\ ctx' = <<deadlineExceeded(ctx[1])>>
    /\ worker' = [i \in DOMAIN worker |-> WakeOnDone(worker[i], deadlineExceeded(ctx[1]))]
    /\ UNCHANGED <<mode, urls, timeOut, pc, index, sleepLeft, received, results>>
    /\ UNCHANGED aux
    /\ QueueSenders

\* `ch <- result` of worker i into the buffer; the worker then returns
TaskSend(i) ==
    /\ worker[i].st = "sending"
    /\ i \in NextSender(sendq)
    /\ HasRoom(buf, chanCap)
    /\ buf' = Append(buf, worker[i].res)
    /\ worker' = [worker EXCEPT ![i] = Sent(worker[i])]
    /\ UNCHANGED <<mode, urls, timeOut, pc, index, sleepLeft, ctx, received, results>>
    /\ UNCHANGED <<chanCap, calls, calc, single>>
    /\ QueueSenders

\* the collect loop's select is polled
Collecting == pc = "collect" /\ CollectCond(index, Len(urls))

\* `case result := <-ch` taking the oldest Result of the buffer
TaskReceive ==
    /\ Collecting
    /\ buf # <<>>
    /\ received' = Append(received, Head(buf))
    /\ results' = Append(results, Head(buf))
    /\ buf' = Tail(buf)
    /\ index' = index + 1
    /\ UNCHANGED <<mode, urls, timeOut, pc, sleepLeft, ctx, worker>>
    /\ UNCHANGED <<chanCap, calls, calc, single>>
    /\ UNCHANGED sendq

\* `case result := <-ch` on an unbuffered channel, meeting worker i's send
TaskRendezvous(i) ==
    /\ Collecting
    /\ chanCap = 0
    /\ worker[i].st = "sending"
    /\ i \in NextSender(sendq)
    /\ received' = Append(received, worker[i].res)
    /\ results' = Append(results, worker[i].res)
    /\ worker' = [worker EXCEPT ![i] = Sent(worker[i])]
    /\ index' = index + 1
    /\ UNCHANGED <<mode, urls, timeOut, pc, sleepLeft, ctx>>
    /\ UNCHANGED aux
    /\ QueueSenders

\* `case <-ctx.Done(): return results`, then the deferred cancel()
TaskExpire ==
    /\ Collecting
    /\ ctx[1].done
    /\ pc' = "done"
    /\ ctx' = <<cancel(ctx[1])>>
    /\ calls' = calls + 1
    /\ UNCHANGED <<mode, urls, timeOut, index, sleepLeft, worker, received, results>>
    /\ UNCHANGED <<chanCap, buf, calc, single>>
    /\ UNCHANGED sendq

\* the collect loop ends: `return results`, then the deferred cancel()
TaskCollectDone ==
    /\ pc = "collect"
    /\ ~CollectCond(index, Len(urls))
    /\ pc' = "done"
    /\ ctx' = <<cancel(ctx[1])>>
    /\ worker' = [i \in DOMAIN worker |-> WakeOnDone(worker[i], cancel(ctx[1]))]
    /\ calls' = calls + 1
    /\ UNCHANGED <<mode, urls, timeOut, index, sleepLeft, received, results>>
    /\ UNCHANGED <<chanCap, buf, calc, single>>
    /\ QueueSenders

\* one unit of time passes, unless a due timer event is still to be delivered
TaskTick ==
    /\ TimerPending
    /\ ~DeadlineDue(1)
    /\ \A i \in DOMAIN worker : ~OpDue(i)
    /\ worker' = [i \in DOMAIN worker |-> [worker[i] EXCEPT !.opLeft = Dec(@)]]
    /\ ctx' = <<[ctx[1] EXCEPT !.left = Dec(@)]>>
    /\ UNCHANGED <<mode, urls, timeOut, pc, index, sleepLeft, received, results>>
    /\ UNCHANGED aux
    /\ QueueSenders

TaskNext ==
    \/ TaskCreate
    \/ TaskLaunch
    \/ TaskLaunchDone
    \/ \E i \in DOMAIN worker : TaskWorkerStart(i)
    \/ \E i \in DOMAIN worker : TaskOpFire(i)
    \/ TaskDeadlineFire
    \/ \E i \in DOMAIN worker : TaskSend(i)
    \/ TaskReceive
    \/ \E i \in DOMAIN worker : TaskRendezvous(i)
    \/ TaskExpire
    \/ TaskCollectDone
    \/ TaskTick

TaskSpec == TaskInit /\ [][TaskNext]_vars

\* the Go scheduler runs every runnable goroutine, timers fire and time passes
TaskLiveSpec == TaskSpec /\ WF_vars(TaskNext)

\* ----------------------------------------- one Context, cancelled repeatedly
\* The life of a single Context and of the worker that observes it, with the
\* caller of FetchWithContextCancel's loop body calling the CancelFunc more
\* than once: create the Context (context.WithCancel, or context.WithTimeout
\* with the timeOut argument), launch FetchURL, then MaxCalls times sleep and
\* call cancel(), while a collector receives the worker's Result.

CtxInit ==
    /\ mode \in {"WithCancel", "WithTimeout"}
    /\ urls = <<1>>
    /\ timeOut \in 0..MaxTimeOut
    /\ (mode = "WithCancel") => (timeOut = 0)
    /\ pc = "launch"
    /\ index = 0
    /\ sleepLeft = 0
    /\ ctx = <<NoCtx>>
    /\ worker = <<NoWorker>>
    /\ received = <<>>
    /\ sendq = <<>>
    /\ results = <<>>
    /\ chanCap = 0
    /\ buf = <<>>
    /\ calls = 0
    /\ calc = NoCall
    /\ responseFetcherInstance = NilFetcher
    /\ getter = <<>>

\* create the Context, `go model.FetchURL(ctx, url, ch)`, and time.Sleep
CtxLaunch ==
    /\ pc = "launch"
    /\ ctx' = <<IF mode = "WithTimeout"
                THEN WithTimeout(Background, timeOut)
                ELSE WithCancel(Background)>>
    /\ worker' = <<Launched(urls[1])>>
    /\ \E delay \in 0..(MaxDelay - 1) : sleepLeft' = delay
    /\ pc' = "sleep"
    /\ UNCHANGED <<mode, urls, timeOut, index, received, results>>
    /\ UNCHANGED aux
    /\ QueueSenders

\* time.Sleep returns and cancel() is called; the caller then sleeps again
\* before its next call, or returns after its last one
CtxCancel ==
    /\ pc = "sleep"
    /\ sleepLeft = 0
    /\ calls < MaxCalls
    /\ ctx' = <<cancel(ctx[1])>>
    /\ worker' = <<WakeOnDone(worker[1], cancel(ctx[1]))>>
    /\ calls' = calls + 1
    /\ IF calls + 1 < MaxCalls
       THEN /\ \E delay \in 0..(MaxDelay - 1) : sleepLeft' = delay
            /\ pc' = pc
       ELSE /\ sleepLeft' = 0
            /\ pc' = "done"
    /\ UNCHANGED <<mode, urls, timeOut, index, received, results>>
    /\ UNCHANGED <<chanCap, buf, calc, single>>
    /\ QueueSenders

\* `res := <-ch` of the collector meeting the worker's send
CtxReceive ==
    /\ worker[1].st = "sending"
    /\ 1 \in NextSender(sendq)
    /\ received' = Append(received, worker[1].res)
    /\ worker' = <<Sent(worker[1])>>
    /\ UNCHANGED <<mode, urls, timeOut, pc, index, sleepLeft, ctx, results>>
    /\ UNCHANGED aux
    /\ QueueSenders

CtxNext ==
    \/ CtxLaunch
    \/ CtxCancel
    \/ CtxReceive
    \/ WorkerStart(1)
    \/ OpFire(1)
    \/ DeadlineFire(1)
    \/ Tick

CtxSpec == CtxInit /\ [][CtxNext]_vars

\* ------------------------------------------- Calculator.Divide (exercise 05)
\* int(math.Inf(1)): the conversion of a float that does not fit an int is
\* implementation-dependent; the builds of Go yield either bound of int
InfAsInt == {"MinInt", "MaxInt"}

\* the returns of Divide(a, b): the result, the error, and the bound of int
\* that stands for the result
Divide(a, b) ==
    IF b = 0
    THEN {[result |-> 0, err |-> ErrDivideByZero, inf |-> k] : k \in InfAsInt}
    ELSE {[result |-> a * b, err |-> ErrNil, inf |-> "none"]}

CalcInit ==
    /\ mode = "Divide"
    /\ urls = <<>>
    /\ timeOut = 0
    /\ pc = "done"
    /\ index = 0
    /\ sleepLeft = 0
    /\ ctx = <<>>
    /\ worker = <<>>
    /\ received = <<>>
    /\ sendq = <<>>
    /\ results = <<>>
    /\ chanCap = 0
    /\ buf = <<>>
    /\ calls = 0
    /\ \E x, y \in (-MaxArg)..MaxArg : calc = [NoCall EXCEPT !.a = x, !.b = y]
    /\ responseFetcherInstance = NilFetcher
    /\ getter = <<>>

\* Divide(a, b) is called and returns
CallDivide ==
    /\ calc.pc = "idle"
    /\ \E r \in Divide(calc.a, calc.b) :
          calc' = [calc EXCEPT !.pc = "returned", !.result = r.result,
                               !.err = r.err, !.inf = r.inf]
    /\ UNCHANGED <<mode, urls, timeOut, pc, index, sleepLeft, ctx, worker, received, results>>
    /\ UNCHANGED <<chanCap, buf, calls, single>>
    /\ UNCHANGED sendq

CalcNext == CallDivide

CalcSpec == CalcInit /\ [][CalcNext]_vars

\* ------------------------------------- GetResponseFetcherInstance (ex. 03)
\* MaxGetters goroutines call the accessor of the package variable
\* responseFetcherInstance.  The accessor takes no lock and uses no
\* sync.Once: its read for the nil test, its assignment and its read for the
\* return are separate steps that interleave with those of the other calls.

SingleInit ==
    /\ mode = "GetResponseFetcherInstance"
    /\ urls = <<>>
    /\ timeOut = 0
    /\ pc = "done"
    /\ index = 0
    /\ sleepLeft = 0
    /\ ctx = <<>>
    /\ worker = <<>>
    /\ received = <<>>
    /\ sendq = <<>>
    /\ results = <<>>
    /\ chanCap = 0
    /\ buf = <<>>
    /\ calls = 0
    /\ calc = NoCall
    /\ responseFetcherInstance = NilFetcher
    /\ \E n \in 1..MaxGetters : getter = [g \in 1..n |-> NoGetter]

\* `if responseFetcherInstance == nil`
GetCheck(g) ==
    /\ getter[g].pc = "idle"
    /\ getter' = [getter EXCEPT ![g].pc =
                     IF responseFetcherInstance = NilFetcher THEN "create" ELSE "return"]
    /\ UNCHANGED responseFetcherInstance

\* `responseFetcherInstance = &UrlResponseFetcher{}`
GetCreate(g) ==
    /\ getter[g].pc = "create"
    /\ responseFetcherInstance' = g
    /\ getter' = [getter EXCEPT ![g].pc = "return", ![g].made = g]

\* `return responseFetcherInstance`
GetReturn(g) ==
    /\ getter[g].pc = "return"
    /\ getter' = [getter EXCEPT ![g].pc = "returned", ![g].ret = responseFetcherInstance]
    /\ UNCHANGED responseFetcherInstance

\* one step of the call g of the accessor
GetResponseFetcherInstance(g) ==
    /\ \/ GetCheck(g)
       \/ GetCreate(g)
       \/ GetReturn(g)
    /\ UNCHANGED <<mode, urls, timeOut, pc, index, sleepLeft, ctx, worker, received, results>>
    /\ UNCHANGED <<chanCap, buf, calls, calc>>
    /\ UNCHANGED sendq

SingleNext == \E g \in DOMAIN getter : GetResponseFetcherInstance(g)

SingleSpec == SingleInit /\ [][SingleNext]_vars

\* ------------------------------------------------------------ properties
\* the operations that collect with the drain-all policy
DrainAll == {"Fetch", "FetchSlice", "FetchWithContextCancel", "FetchWithTimeOut"}

\* worker i has left its wait point with a Result
HasResult(i) == worker[i].st \in {"sending", "done"}

\* worker i holds its Result and is at its send on the Result Channel
AtSend(i) == worker[i].st = "sending"

\* the positions of `received` that carry URL u
ReceivedFor(u) == {k \in DOMAIN received : received[k].URL = u}

RECURSIVE SumSends(_)
\* the number of sends completed by the workers of the positions in S
SumSends(S) ==
    IF S = {} THEN 0
    ELSE LET i == CHOOSE x \in S : TRUE IN worker[i].sends + SumSends(S \ {i})

\* C1: when a drain-all operation on a non-empty list of pairwise distinct
\* URLs has returned, it has received exactly len(urls) Results, every input
\* URL is carried by exactly one of them and every received URL is an input
\* URL.
C1_DrainAllBijection ==
    (pc = "done" /\ mode \in DrainAll /\ Len(urls) > 0 /\ DistinctUrls) =>
        /\ Len(received) = Len(urls)
        /\ \A i \in DOMAIN urls : Cardinality(ReceivedFor(urls[i])) = 1
        /\ \A k \in DOMAIN received : \E i \in DOMAIN urls : received[k].URL = urls[i]

\* C1 witness: FetchWithTimeOut has returned after receiving the Results of
\* two distinct URLs in the reverse of the input order
C1_Witness ==
    /\ pc = "done" /\ mode = "FetchWithTimeOut" /\ urls = <<1, 2>>
    /\ Len(received) = 2 /\ received[1].URL = 2 /\ received[2].URL = 1

\* C2: a worker never completes more than one send, has completed none
\* while it has not returned, and has completed exactly one when it has
\* returned, on either branch; the Results observed are one per completed send.
C2_ExactlyOneSend ==
    /\ \A i \in DOMAIN worker :
          /\ worker[i].sends <= 1
          /\ worker[i].st = "done" => worker[i].sends = 1
          /\ worker[i].st # "done" => worker[i].sends = 0
    /\ Len(received) = SumSends(DOMAIN worker)

\* C2 witness: one worker has returned after sending on the
\* operation-completed branch and another after sending on the context-done
\* branch
C2_Witness ==
    \E i, j \in DOMAIN worker :
        /\ worker[i].st = "done" /\ worker[i].branch = "op" /\ worker[i].sends = 1
        /\ worker[j].st = "done" /\ worker[j].branch = "ctx" /\ worker[j].sends = 1

\* C3: under fair scheduling every drain-all operation eventually returns.
C3_DrainAllTerminates == (mode \in DrainAll) => <>(pc = "done")

\* C3 witness: FetchWithContextCancel has returned after a worker took the
\* operation-completed branch and another the context-done branch
C3_Witness ==
    /\ pc = "done" /\ mode = "FetchWithContextCancel" /\ Len(urls) = 2
    /\ worker[1].branch # worker[2].branch

\* C4: when the operation has returned, the completed sends, the receives
\* and the Work Items are equal in number, no worker is blocked on its send
\* and every worker has returned.
C4_NoSenderLeaked ==
    (pc = "done" /\ mode \in DrainAll) =>
        /\ SumSends(DOMAIN worker) = Len(urls)
        /\ Len(received) = Len(urls)
        /\ \A i \in DOMAIN worker : worker[i].st = "done"

\* C4 witness: FetchWithTimeOut has returned with two workers that both sent
C4_Witness ==
    /\ pc = "done" /\ mode = "FetchWithTimeOut" /\ Len(urls) = 2
    /\ SumSends(DOMAIN worker) = 2

C6_AllSuccessAnySchedule ==
    (/\ mode = "FetchWithTimeOut"
     /\ \A i \in DOMAIN worker : AtSend(i) => worker[i].dur < timeOut) =>
        \A i \in DOMAIN worker :
            AtSend(i) => worker[i].res = Result(worker[i].url, 200, ErrNil)

\* C6 amended: in FetchWithTimeOut a worker that starts waiting while the
\* time left until its Context's deadline is longer than its operation's
\* duration reaches its send with a Success; the timeout counts from the creation of the
\* Context, not from the start of the worker.
C6_SuccessWhenStartedInTime ==
    (mode = "FetchWithTimeOut") =>
        \A i \in DOMAIN worker :
            (AtSend(i) /\ worker[i].dur < worker[i].ctxLeft) =>
                worker[i].res = Result(worker[i].url, 200, ErrNil)

\* C6 witness: a worker that parked in its select, with an operation shorter
\* than the time left until its deadline, is at its send with a Success
C6_Witness ==
    /\ mode = "FetchWithTimeOut"
    /\ \E i \in DOMAIN worker :
          /\ AtSend(i) /\ worker[i].dur > 0
          /\ worker[i].dur < worker[i].ctxLeft
          /\ worker[i].res.StatusCode = 200

\* the dispatcher is blocked: in a receive of the collect loop or in a sleep
Blocked ==
    \/ pc = "collect" /\ mode # "FetchResp" /\ CollectCond(index, Len(urls))
    \/ pc \in {"sleep", "respSleep"}

\* C7: a drain-all operation on an empty url list launches no worker,
\* creates no Context, receives nothing and is never blocked.
C7_EmptyListNoBlocking ==
    (Len(urls) = 0 /\ mode \in DrainAll) =>
        /\ \A i \in DOMAIN worker : worker[i].st = "none"
        /\ \A i \in DOMAIN ctx : ~ctx[i].created
        /\ Len(received) = 0
        /\ index = 0
        /\ ~Blocked

\* C7 witness: FetchWithContextCancel has returned on an empty list
C7_Witness == Len(urls) = 0 /\ mode = "FetchWithContextCancel" /\ pc = "done"

\* C8 as claimed: when a dispatch operation has returned, the cancel
\* function of every Context it created has been called.
C8_CancelAlwaysCalled ==
    (pc = "done") => \A i \in DOMAIN ctx : ctx[i].created => ctx[i].cancelCalled

\* C9: a Result of the context-done branch has a StatusCode other than 200
\* and carries 'deadline exceeded' exactly when its Context fired by its
\* deadline and 'canceled' exactly when it fired by an explicit cancel.
C9_ReasonDiscriminated ==
    \A i \in DOMAIN worker :
        (worker[i].branch = "ctx") =>
            /\ HasResult(i)
            /\ worker[i].res.StatusCode # 200
            /\ ctx[i].cause \in {"deadline", "cancel"}
            /\ worker[i].res.Error = ErrDeadlineExceeded <=> ctx[i].cause = "deadline"
            /\ worker[i].res.Error = ErrCanceled <=> ctx[i].cause = "cancel"

\* C9 witness: a worker parked in its select was woken by an explicit cancel
\* and its Result has been received
C9_Witness ==
    \E i \in DOMAIN worker :
        /\ worker[i].st = "done" /\ worker[i].branch = "ctx"
        /\ ctx[i].cause = "cancel" /\ received[Len(received)].Error = ErrCanceled

\* in this step the cancel function of Context i is called for the first time
CancelStep(i) == ~ctx[i].cancelCalled /\ ctx'[i].cancelCalled

\* C10: in FetchWithContextCancel a Context is done only by its own cancel
\* function, a context-done Result of item j comes from j's own Context,
\* and the step that cancels item i leaves the Context and the worker of
\* every other item unchanged.
C10_CancelIsolation ==
    /\ [](mode = "FetchWithContextCancel" =>
            \A j \in DOMAIN ctx :
                /\ ctx[j].done => ctx[j].cancelCalled
                /\ worker[j].branch = "ctx" => ctx[j].done
                /\ worker[j].branch = "op" => worker[j].res.StatusCode = 200)
    /\ [][mode = "FetchWithContextCancel" =>
            \A i \in DOMAIN ctx :
                CancelStep(i) =>
                    \A j \in DOMAIN ctx \ {i} : ctx'[j] = ctx[j] /\ worker'[j] = worker[j]]_vars

\* C10 witness: item 2 has been cancelled while the worker of item 1, whose
\* operation completed before its own cancel, is still blocked on its send
C10_Witness ==
    /\ mode = "FetchWithContextCancel" /\ Len(urls) = 2
    /\ ctx[2].cancelCalled /\ worker[2].branch = "ctx"
    /\ worker[1].st = "sending" /\ worker[1].branch = "op"

\* the workers that are parked at their wait point (the select of FetchURL,
\* the time.Sleep of exercise 03)
Parked == {i \in DOMAIN worker : worker[i].st = "parked"}

\* the operations that launch one worker per url
FanOut == {"Fetch", "FetchSlice", "FetchWithTimeOut", "FetchWithContextCancel"}

Created == {i \in DOMAIN ctx : ctx[i].created}

\* C12 as claimed: the workers of a FetchWithTimeOut batch observe one
\* cutoff instant: the Contexts handed to them have the same time left until
\* their deadlines at every moment and are done together.
C12_SameCutoffInstant ==
    (mode = "FetchWithTimeOut") =>
        \A i, j \in Created :
            ctx[i].left = ctx[j].left /\ ctx[i].done = ctx[j].done

\* the URL that Fetch prints together with the k-th Result it received:
\* res.URL in the map version, urls[index] in the slice version
ReportedURL(k) == IF mode = "FetchSlice" THEN urls[k] ELSE received[k].URL

\* C13 as claimed: whenever Fetch records or reports a Result together with
\* a URL (the key of the map, urls[index] of the slice version), that URL is
\* the URL carried in the Result, in every completion order.
C13_ReportedUrlIsResultUrl ==
    (mode \in {"Fetch", "FetchSlice"}) =>
        /\ \A k \in DOMAIN received : ReportedURL(k) = received[k].URL
        /\ (mode = "Fetch") => \A u \in DOMAIN results : results[u].URL = u
        /\ (mode = "FetchSlice") =>
              \A k \in DOMAIN received : results[k].URL = urls[k]

\* the timeout of the batch has expired for the collector: the collect loop
\* runs and the deadline of every Context of the batch has elapsed
CollectorDeadlineExpired ==
    /\ pc = "collect"
    /\ \A i \in DOMAIN ctx : ctx[i].created /\ ctx[i].done /\ ctx[i].cause = "deadline"

\* C14 as claimed: once the deadline has expired the collector of
\* FetchWithTimeOut stops receiving: no step after the expiry adds a Result
\* to the ones that have arrived so far.
C14_StopsReceivingOnExpiry ==
    [][(mode = "FetchWithTimeOut" /\ Len(urls) > 0 /\ CollectorDeadlineExpired) =>
          received' = received]_vars

\* every worker has returned
AllReturned == \A i \in DOMAIN worker : worker[i].st = "done"

\* C15: in FetchWithTimeout of TASK.md, with a Result Channel of capacity
\* len(urls) or more every launched worker completes its send and returns,
\* also after the collector has returned early; with an unbuffered channel a
\* worker that is blocked on its send when the collector has returned stays
\* blocked in every later state.
C15_LeakSafeWhenBuffered ==
    /\ (chanCap >= Len(urls)) => <>[](pc = "done" /\ AllReturned)
    /\ [][(pc = "done" /\ chanCap = 0) =>
            \A i \in DOMAIN worker :
                worker[i].st = "sending" =>
                    worker'[i] = worker[i] /\ received' = received]_vars

\* C15 witness: the collector has returned on expiry with fewer Results than
\* urls, and every worker has completed its send into the buffer and returned
C15_Witness ==
    /\ mode = "TASK.FetchWithTimeout" /\ Len(urls) = MaxUrls /\ chanCap = Len(urls)
    /\ pc = "done" /\ Len(results) < Len(urls)
    /\ AllReturned /\ buf # <<>>

\* a worker is blocked on its send after the collector has returned and
\* released the Context
Leaked == pc = "done" /\ \E i \in DOMAIN worker : worker[i].st = "sending" /\ ~HasRoom(buf, chanCap)

LaunchedPositions == {i \in DOMAIN worker : worker[i].st # "none"}

\* the number of `go` statements the launch loop has executed
LaunchCount ==
    CASE pc = "launch" -> index
      [] pc = "sleep" -> index + 1
      [] OTHER -> Len(urls)

\* C17: the workers launched so far are those of the first input positions,
\* one per executed `go` statement, each handed the URL of its own position
\* (also when two positions hold the same URL); when the launch loop has
\* ended they are exactly the positions 1..len(urls), and there is no worker
\* outside the input positions.
C17_OneWorkerPerPosition ==
    (mode \in FanOut) =>
        /\ DOMAIN worker = DOMAIN urls
        /\ LaunchedPositions = 1..LaunchCount
        /\ \A i \in LaunchedPositions : worker[i].url = urls[i]
        /\ (pc \in {"collect", "done"}) => Cardinality(LaunchedPositions) = Len(urls)

\* C17 witness: Fetch was handed the same URL at two positions and has
\* launched one worker for each of them
C17_Witness ==
    /\ mode = "Fetch" /\ urls = <<1, 1>> /\ pc = "collect"
    /\ LaunchedPositions = {1, 2}
    /\ worker[1].url = 1 /\ worker[2].url = 1

\* in this step the CancelFunc is called on a Context it was called on before
SecondCancel == calls >= 1 /\ calls' = calls + 1

Abs(n) == IF n < 0 THEN -n ELSE n

\* the integer quotient of a by b, b # 0, truncated toward zero as Go's a / b
Quotient(a, b) ==
    IF (a < 0) = (b < 0) THEN Abs(a) \div Abs(b) ELSE -(Abs(a) \div Abs(b))

\* C20 as claimed: Calculator.Divide(a, b) with b # 0 returns the integer
\* quotient of a by b and a nil error.
C20_DivideReturnsQuotient ==
    (calc.pc = "returned" /\ calc.b # 0) =>
        /\ calc.err = ErrNil
        /\ calc.inf = "none"
        /\ calc.result = Quotient(calc.a, calc.b)

\* in this step worker i leaves its wait (or its start) with a Result
Decides(i) == ~HasResult(i) /\ worker'[i].st = "sending"

C22_CompletedResultSurvivesCancel ==
    /\ [][\A i \in DOMAIN worker :
            HasResult(i) =>
                /\ worker'[i].res = worker[i].res
                /\ worker'[i].branch = worker[i].branch]_vars
    /\ [](mode = "FetchWithContextCancel" =>
            \A i \in DOMAIN worker :
                /\ worker[i].branch = "op" => worker[i].res = Result(urls[i], 200, ErrNil)
                /\ worker[i].st = "done" => ctx[i].cancelCalled)
    /\ [][(mode = "FetchWithContextCancel") =>
            \A i \in DOMAIN worker :
                (AtSend(i) /\ worker'[i].st = "done") =>
                    received' = Append(received, worker[i].res)]_vars

\* C22 witness: in FetchWithContextCancel the operation of a worker
\* completed before the cancel of its Context, and its Success has been
\* received after that cancel
C22_Witness ==
    /\ mode = "FetchWithContextCancel"
    /\ \E i \in DOMAIN worker :
          /\ worker[i].st = "done" /\ worker[i].branch = "op"
          /\ ctx[i].cause = "cancel"
          /\ \E k \in DOMAIN received : received[k] = Result(urls[i], 200, ErrNil)

\* the Results sent so far: those received and those held by workers that
\* are at their send
SentResults ==
    {received[k] : k \in DOMAIN received} \cup
    {worker[i].res : i \in {j \in DOMAIN worker : AtSend(j)}}

\* C23: every Result sent has a nil error exactly when its StatusCode is
\* 200 and an error, the reason of its Context, exactly when its StatusCode
\* is 500; a worker's Result is a Success exactly on the
\* operation-completed branch.
C23_ErrorNilIffSuccess ==
    /\ \A r \in SentResults :
          /\ r.StatusCode \in {200, 500}
          /\ r.Error = ErrNil <=> r.StatusCode = 200
          /\ r.Error \in {ErrCanceled, ErrDeadlineExceeded} <=> r.StatusCode = 500
    /\ \A i \in DOMAIN worker :
          HasResult(i) =>
              /\ worker[i].branch = "op" <=> worker[i].res.StatusCode = 200
              /\ worker[i].branch = "ctx" <=> worker[i].res.StatusCode = 500
              /\ worker[i].branch = "ctx" => worker[i].res.Error = Err(ctx[i])

\* C23 witness: a Success with a nil error and a context-done Result with
\* StatusCode 500 and an error have both been received
C23_Witness ==
    \E k, l \in DOMAIN received :
        /\ received[k].StatusCode = 200 /\ received[k].Error = ErrNil
        /\ received[l].StatusCode = 500 /\ received[l].Error # ErrNil

\* in this step the send of worker i completes
SendCompletes(i) == AtSend(i) /\ worker'[i].st = "done"

Uncancelled == {i \in LaunchedPositions : ~ctx[i].done}

\* C25: in FetchWithContextCancel the worker of a position is launched only
\* after the Contexts of all earlier positions have been cancelled, so at
\* most one launched worker has a Context that has not fired, and it is the
\* one launched last; when the collect loop runs every Context of the batch
\* has been cancelled.
C25_LaunchesSerialized ==
    (mode = "FetchWithContextCancel") =>
        /\ \A i \in LaunchedPositions :
              \A j \in 1..(i - 1) : ctx[j].cancelCalled /\ ctx[j].done
        /\ Cardinality(Uncancelled) <= 1
        /\ \A i \in Uncancelled : pc = "sleep" /\ i = index + 1
        /\ (pc \in {"collect", "done"}) =>
              \A i \in DOMAIN ctx :
                  ctx[i].created /\ ctx[i].cancelCalled /\ ctx[i].done

\* C25 witness: the collect loop of FetchWithContextCancel starts with both
\* Contexts cancelled and both workers blocked on their sends
C25_Witness ==
    /\ mode = "FetchWithContextCancel" /\ Len(urls) = 2
    /\ pc = "collect" /\ received = <<>>
    /\ ctx[1].cancelCalled /\ ctx[2].cancelCalled
    /\ AtSend(1) /\ AtSend(2)

\* C26: the Contexts of FetchWithContextCancel have no deadline and no
\* Result of it carries 'context deadline exceeded'; the cancel functions of
\* FetchWithTimeOut are never called and no Result of it carries
\* 'context canceled'.
C26_ReasonFixedByDispatcher ==
    /\ (mode = "FetchWithContextCancel") =>
          /\ \A i \in DOMAIN ctx : ~ctx[i].hasDeadline /\ ctx[i].cause # "deadline"
          /\ \A r \in SentResults : r.Error \in {ErrNil, ErrCanceled}
    /\ (mode = "FetchWithTimeOut") =>
          /\ \A i \in DOMAIN ctx : ~ctx[i].cancelCalled /\ ctx[i].cause # "cancel"
          /\ \A r \in SentResults : r.Error \in {ErrNil, ErrDeadlineExceeded}

\* C26 witness: FetchWithContextCancel has returned after receiving two
\* Results of the context-done branch, both with 'context canceled'
C26_Witness ==
    /\ mode = "FetchWithContextCancel" /\ pc = "done" /\ Len(received) = 2
    /\ \A k \in DOMAIN received :
          received[k].StatusCode = 500 /\ received[k].Error = ErrCanceled

\* C27: in every state the completed sends and the completed receives are
\* equal in number and no more than the launched workers; while the launch
\* loop runs nothing has been sent or received, and a send has completed
\* only when a worker has been launched for every input position.
C27_SendsEqualReceives ==
    /\ SumSends(DOMAIN worker) = Len(received)
    /\ Len(received) <= Cardinality(LaunchedPositions)
    /\ (pc \in {"launch", "sleep"}) => Len(received) = 0
    /\ (SumSends(DOMAIN worker) > 0) => LaunchedPositions = DOMAIN urls

\* C27 witness: FetchWithTimeOut has launched both workers and received one
\* Result while the other worker is still parked in its select
C27_Witness ==
    /\ mode = "FetchWithTimeOut" /\ Len(urls) = 2 /\ pc = "collect"
    /\ SumSends(DOMAIN worker) = 1 /\ Len(received) = 1
    /\ \E i \in DOMAIN worker : worker[i].st = "parked"

\* C28 as claimed: when the map version of Fetch has received all Results,
\* its results map has an entry under every input URL, each entry is the
\* Result of its key, and it has as many entries as the input list has
\* positions, also for a list that names one URL at two positions.
C28_OneEntryPerInput ==
    (mode = "Fetch" /\ pc = "done") =>
        /\ \A i \in DOMAIN urls : urls[i] \in DOMAIN results
        /\ \A u \in DOMAIN results : results[u].URL = u
        /\ Cardinality(DOMAIN results) = Len(urls)

\* the calls of the accessor that have returned, and the UrlResponseFetcher
\* values that calls of the accessor have created
Returned == {g \in DOMAIN getter : getter[g].pc = "returned"}
Made == {getter[g].made : g \in DOMAIN getter} \ {NilFetcher}

\* C29 as claimed: any two calls of GetResponseFetcherInstance return the
\* same ResponseFetcher, which is not nil, and at most one UrlResponseFetcher
\* is ever created, also when the first calls run concurrently.
C29_SingletonAccessor ==
    /\ Cardinality(Made) <= 1
    /\ \A g \in Returned : getter[g].ret # NilFetcher
    /\ \A g, h \in Returned : getter[g].ret = getter[h].ret

====
